---- MODULE Spec2Model ----
(***************************************************************************)
(* Model of the visitor-info API route (src/src/app/api/visitor-info/      *)
(* route.ts) and of the client fan-out of src/src/app/page.tsx.            *)
(*                                                                         *)
(* JavaScript strings are sequences of one-character strings, so that      *)
(* split, trim, toLowerCase and includes are computed, not assumed.        *)
(***************************************************************************)
EXTENDS Integers, Sequences, FiniteSets, TLC

VARIABLES
    request,   \* the NextRequest being handled: [headers: name -> raw value]
    env,       \* what the two lookup providers will do for this request
    now,       \* wall clock, milliseconds
    pc,        \* position of detectProxyVPN: "entry", "awaiting", "returned", "threw"
    locals,    \* the local constants of detectProxyVPN computed before the await
    promise,   \* promises[0..1] of detectProxyVPN, by lookup name
    result,    \* the object detectProxyVPN returned (NoResult before that)
    client,    \* captureComprehensiveData of page.tsx: its promises and locals
    visitorSessions,  \* route.ts:4  the module-level Map, key -> session
    sessionCounter,   \* route.ts:5
    handlers,  \* the GET and POST calls in progress in the server process
    accepted,  \* number of requests the server has accepted
    sessionCalls  \* history: per key, the getOrCreateSession calls made so far

server == <<visitorSessions, sessionCounter, handlers, accepted, sessionCalls>>

vars == <<request, env, now, pc, locals, promise, result, client, server>>

----------------------------------------------------------------------------
(* JavaScript values *)

Undefined == [t |-> "undefined", b |-> FALSE, n |-> 0, s |-> <<>>]
Null == [t |-> "null", b |-> FALSE, n |-> 0, s |-> <<>>]
Bool(b) == [t |-> "boolean", b |-> b, n |-> 0, s |-> <<>>]
Num(n) == [t |-> "number", b |-> FALSE, n |-> n, s |-> <<>>]
Str(s) == [t |-> "string", b |-> FALSE, n |-> 0, s |-> s]
Obj == [t |-> "object", b |-> FALSE, n |-> 0, s |-> <<>>]

\* ToBoolean: what `if (v)`, `v || w` and `!v` test
Truthy(v) ==
    CASE v.t = "boolean" -> v.b
      [] v.t = "string" -> v.s # <<>>
      [] v.t = "number" -> v.n # 0
      [] v.t = "object" -> TRUE
      [] OTHER -> FALSE

\* The property names the code reads from a parsed JSON body
Fields ==
    {"status", "isp", "org", "proxy", "hosting", "IsTor", "error", "ip", "query",
     "type", "userAgent"}

\* A parsed JSON body: its own value and, for an object, its properties.
\* Reading a property of a primitive gives undefined.
ObjectBody(fs) ==
    [v |-> Obj, f |-> [k \in Fields |-> IF k \in DOMAIN fs THEN fs[k] ELSE Undefined]]
PrimitiveBody(v) == [v |-> v, f |-> [k \in Fields |-> Undefined]]
NullBody == PrimitiveBody(Null)
Prop(body, k) == body.f[k]

----------------------------------------------------------------------------
(* String primitives *)

WhiteSpace == {" ", "\t", "\n", "\r"}

UpperCase == <<"A","B","C","D","E","F","G","H","I","J","K","L","M",
               "N","O","P","Q","R","S","T","U","V","W","X","Y","Z">>
LowerCase == <<"a","b","c","d","e","f","g","h","i","j","k","l","m",
               "n","o","p","q","r","s","t","u","v","w","x","y","z">>

ToLowerChar(c) ==
    IF \E i \in DOMAIN UpperCase : UpperCase[i] = c
    THEN LowerCase[CHOOSE i \in DOMAIN UpperCase : UpperCase[i] = c]
    ELSE c

\* String.prototype.toLowerCase
ToLowerCase(s) == [i \in DOMAIN s |-> ToLowerChar(s[i])]

\* String.prototype.includes
Includes(s, pat) ==
    \E i \in 0..(Len(s) - Len(pat)) : SubSeq(s, i + 1, i + Len(pat)) = pat

RECURSIVE TrimStart(_)
TrimStart(s) ==
    IF s # <<>> /\ Head(s) \in WhiteSpace THEN TrimStart(Tail(s)) ELSE s

RECURSIVE TrimEnd(_)
TrimEnd(s) ==
    IF s # <<>> /\ s[Len(s)] \in WhiteSpace
    THEN TrimEnd(SubSeq(s, 1, Len(s) - 1))
    ELSE s

\* String.prototype.trim
Trim(s) == TrimEnd(TrimStart(s))

\* String.prototype.split(','): the pieces between the commas, empty ones kept
RECURSIVE Split(_)
Split(s) ==
    IF \E i \in DOMAIN s : s[i] = ","
    THEN LET i == CHOOSE j \in DOMAIN s : s[j] = "," /\ \A k \in 1..(j - 1) : s[k] # ","
         IN  <<SubSeq(s, 1, i - 1)>> \o Split(SubSeq(s, i + 1, Len(s)))
    ELSE <<s>>

----------------------------------------------------------------------------
(* String literals of the source *)

HiddenByTor == <<"H","i","d","d","e","n"," ","b","y"," ","T","o","r"," ","N","e","t","w","o","r","k">>
UnknownIP == <<"U","n","k","n","o","w","n">>

\* route.ts:97
torPatterns == { <<"t","o","r">>, <<"e","x","i","t">>, <<"r","e","l","a","y">>, <<"p","r","i","v","a","c","y"," ","f","o","u","n","d","a","t","i","o","n">> }

\* route.ts:66, the alternatives of /bot|crawler|spider|scraper/i
automationTokens == { <<"b","o","t">>, <<"c","r","a","w","l","e","r">>, <<"s","p","i","d","e","r">>, <<"s","c","r","a","p","e","r">> }

\* route.ts:47-50, in the order of the array
proxyHeaders ==
    <<"x-forwarded-for", "x-real-ip", "cf-connecting-ip", "true-client-ip",
      "x-forwarded-proto", "x-forwarded-host", "x-cluster-client-ip">>

----------------------------------------------------------------------------
(* The request *)

\* Headers.get: null for an absent header; the value is stored with its
\* leading and trailing HTTP whitespace removed (the Headers class normalizes
\* every value it is given).
HeadersGet(req, name) ==
    IF name \in DOMAIN req.headers THEN Str(Trim(req.headers[name])) ELSE Null

\* Mutant: lines 36 and 37 swapped, x-forwarded-for before cf-connecting-ip
getRealIPForwardedFirst(req) ==
    LET forwarded == HeadersGet(req, "x-forwarded-for")
        realIP == HeadersGet(req, "x-real-ip")
        cfConnectingIP == HeadersGet(req, "cf-connecting-ip")
    IN  IF Truthy(forwarded) THEN Trim(Split(forwarded.s)[1])
        ELSE IF Truthy(cfConnectingIP) THEN cfConnectingIP.s
        ELSE IF Truthy(realIP) THEN realIP.s
        ELSE UnknownIP

\* route.ts:31-41
getRealIP(req) ==
    LET forwarded == HeadersGet(req, "x-forwarded-for")
        realIP == HeadersGet(req, "x-real-ip")
        cfConnectingIP == HeadersGet(req, "cf-connecting-ip")
    IN  IF Truthy(cfConnectingIP) THEN cfConnectingIP.s
        ELSE IF Truthy(forwarded) THEN Trim(Split(forwarded.s)[1])
        ELSE IF Truthy(realIP) THEN realIP.s
        ELSE UnknownIP

----------------------------------------------------------------------------
(* detectProxyVPN, the part before the await (route.ts:45-66) *)

\* Mutant: the test of line 55 written `value !== null`
RECURSIVE forEachHeaderNotNull(_, _)
forEachHeaderNotNull(req, i) ==
    IF i = 0 THEN <<>>
    ELSE LET header == proxyHeaders[i]
             value == HeadersGet(req, header)
             pushed == forEachHeaderNotNull(req, i - 1)
         IN  IF value.t # "null"
             THEN Append(pushed, [header |-> header, value |-> value.s])
             ELSE pushed

\* route.ts:53-56: detectedHeaders after forEach has visited proxyHeaders[1..i]
RECURSIVE forEachHeader(_, _)
forEachHeader(req, i) ==
    IF i = 0 THEN <<>>
    ELSE LET header == proxyHeaders[i]
             value == HeadersGet(req, header)
             pushed == forEachHeader(req, i - 1)
         IN  IF Truthy(value)
             THEN Append(pushed, [header |-> header, value |-> value.s])
             ELSE pushed

detectedHeadersOf(req) == forEachHeader(req, Len(proxyHeaders))

\* Mutant: the .map(ip => ip.trim()) of line 60 left out
ipChainUntrimmed(req) ==
    LET forwardedFor == HeadersGet(req, "x-forwarded-for")
    IN  IF Truthy(forwardedFor) THEN Split(forwardedFor.s) ELSE <<>>

\* route.ts:59-60
ipChainOf(req) ==
    LET forwardedFor == HeadersGet(req, "x-forwarded-for")
    IN  IF Truthy(forwardedFor)
        THEN LET parts == Split(forwardedFor.s)
             IN  [i \in DOMAIN parts |-> Trim(parts[i])]
        ELSE <<>>

\* Mutant: the regular expression of line 66 without its i flag
isAutomatedCaseSensitive(req) ==
    LET got == HeadersGet(req, "user-agent")
        userAgent == IF Truthy(got) THEN got.s ELSE <<>>
    IN  \E token \in automationTokens : Includes(userAgent, token)

\* route.ts:65-66
isAutomatedOf(req) ==
    LET got == HeadersGet(req, "user-agent")
        userAgent == IF Truthy(got) THEN got.s ELSE <<>>
    IN  \E token \in automationTokens : Includes(ToLowerCase(userAgent), token)

\* route.ts:45-66: the constants the rest of the function closes over
detectLocals(ip, req, startTime) ==
    LET detectedHeaders == detectedHeadersOf(req)
        ipChain == ipChainOf(req)
        hasMultipleIPs == Len(ipChain) > 1
    IN  [ip |-> ip,
         startTime |-> startTime,
         detectedHeaders |-> detectedHeaders,
         ipChain |-> ipChain,
         hasMultipleIPs |-> hasMultipleIPs,
         isLikelyProxy |-> (Len(detectedHeaders) > 0 \/ hasMultipleIPs),
         isAutomated |-> isAutomatedOf(req)]

----------------------------------------------------------------------------
(* detectProxyVPN, the part after the await (route.ts:85-137) *)

\* route.ts:88-89
settledValue(p) == IF p.status = "fulfilled" THEN p.value ELSE NullBody

\* route.ts:92  tor?.IsTor === true
torOfficial(tor) ==
    /\ tor.v.t \notin {"null", "undefined"}
    /\ Prop(tor, "IsTor") = Bool(TRUE)

\* route.ts:98-99  (x || '').toLowerCase() raises a TypeError when x is truthy
\* and no string: numbers, true, arrays and objects have no toLowerCase
lowerThrows(x) == Truthy(x) /\ x.t # "string"
lowerOrEmpty(x) == IF Truthy(x) THEN ToLowerCase(x.s) ELSE <<>>

\* route.ts:96  the fallback runs
fallbackRuns(geo, tor) == ~torOfficial(tor) /\ Truthy(geo.v)

\* route.ts:98-99
fallbackThrows(geo, tor) ==
    /\ fallbackRuns(geo, tor)
    /\ lowerThrows(Prop(geo, "isp")) \/ lowerThrows(Prop(geo, "org"))

\* route.ts:101
patternMatches(geo) ==
    LET isp == lowerOrEmpty(Prop(geo, "isp"))
        org == lowerOrEmpty(Prop(geo, "org"))
    IN  \E pattern \in torPatterns : Includes(isp, pattern) \/ Includes(org, pattern)

\* route.ts:92-105
isTorOf(geo, tor) ==
    torOfficial(tor) \/ (fallbackRuns(geo, tor) /\ patternMatches(geo))

\* Mutant: line 96 written `if (geo)`, so that the fallback overrides the
\* method of an official assertion
torDetectionMethodOverridden(geo, tor) ==
    IF Truthy(geo.v) /\ patternMatches(geo) THEN "ISP Pattern Analysis"
    ELSE IF torOfficial(tor) THEN "Official Tor Exit Node List"
    ELSE ""

torDetectionMethodOf(geo, tor) ==
    IF torOfficial(tor) THEN "Official Tor Exit Node List"
    ELSE IF fallbackRuns(geo, tor) /\ patternMatches(geo) THEN "ISP Pattern Analysis"
    ELSE ""

\* geo?.hosting, geo?.proxy
optionalFlag(geo, k) ==
    IF geo.v.t \in {"null", "undefined"} THEN FALSE ELSE Truthy(Prop(geo, k))

\* Mutant: the proxy test of line 111 placed before the hosting test of line 110
connectionTypeProxyFirst(isTor, geo, isLikelyProxy) ==
    IF isTor THEN "Tor Network"
    ELSE IF optionalFlag(geo, "proxy") \/ isLikelyProxy THEN "Proxy/VPN"
    ELSE IF optionalFlag(geo, "hosting") THEN "Hosting/VPS"
    ELSE "Direct"

\* route.ts:108-111
connectionTypeOf(isTor, geo, isLikelyProxy) ==
    IF isTor THEN "Tor Network"
    ELSE IF optionalFlag(geo, "hosting") THEN "Hosting/VPS"
    ELSE IF optionalFlag(geo, "proxy") \/ isLikelyProxy THEN "Proxy/VPN"
    ELSE "Direct"

\* Mutant: line 122 without the isTor test
realIPIgnoringTor(isTor, ipChain, ip) ==
    IF ipChain # <<>> /\ ipChain[1] # <<>> THEN ipChain[1] ELSE ip

\* route.ts:122  isTor ? 'Hidden by Tor Network' : (ipChain[0] || ip)
realIPOf(isTor, ipChain, ip) ==
    IF isTor THEN HiddenByTor
    ELSE IF ipChain # <<>> /\ ipChain[1] # <<>> THEN ipChain[1]
    ELSE ip

\* route.ts:123  ipChain.slice(1)
proxyChainOf(ipChain) == IF ipChain = <<>> THEN <<>> ELSE Tail(ipChain)

\* Mutant: the matched headers subtracted, not added
proxyScoreMinusHeaders(l, isTor) ==
    (IF l.hasMultipleIPs THEN 2 ELSE 0) + (IF l.isAutomated THEN 1 ELSE 0)
        + (IF isTor THEN 5 ELSE 0) - Len(l.detectedHeaders)

\* Mutant: a chain of several addresses counted 1, not 2
proxyScoreChainOne(l, isTor) ==
    Len(l.detectedHeaders) + (IF l.hasMultipleIPs THEN 1 ELSE 0)
        + (IF l.isAutomated THEN 1 ELSE 0) + (IF isTor THEN 5 ELSE 0)

\* route.ts:127
proxyScoreOf(l, isTor) ==
    Len(l.detectedHeaders) + (IF l.hasMultipleIPs THEN 2 ELSE 0)
        + (IF l.isAutomated THEN 1 ELSE 0) + (IF isTor THEN 5 ELSE 0)

\* Mutant: line 128 testing the provisional isLikelyProxy alone
confidenceWithoutTor(l, isTor) == IF l.isLikelyProxy THEN "High" ELSE "Low"

\* Mutant: the branches of the conditional of line 128 exchanged
confidenceInverted(l, isTor) == IF isTor \/ l.isLikelyProxy THEN "Low" ELSE "High"

\* route.ts:128
confidenceOf(l, isTor) == IF isTor \/ l.isLikelyProxy THEN "High" ELSE "Low"

\* route.ts:131-135
explanationOf(isTor, connectionType) ==
    IF isTor THEN "Real IP cannot be determined - Tor network provides anonymity by design"
    ELSE IF connectionType = "Direct" THEN "Direct connection detected"
    ELSE "Proxy/VPN detected - real IP may be hidden"

\* route.ts:113-137: the object returned
verdictOf(l, geo, tor, endTime) ==
    LET isTor == isTorOf(geo, tor)
        connectionType == connectionTypeOf(isTor, geo, l.isLikelyProxy)
    IN  [isLikelyProxy |-> (l.isLikelyProxy \/ isTor),
         hasMultipleIPs |-> l.hasMultipleIPs,
         isTor |-> isTor,
         torDetectionMethod |-> torDetectionMethodOf(geo, tor),
         proxyHeaders |-> l.detectedHeaders,
         ipChain |-> l.ipChain,
         realIP |-> realIPOf(isTor, l.ipChain, l.ip),
         proxyChain |-> proxyChainOf(l.ipChain),
         isAutomated |-> l.isAutomated,
         geoData |-> geo,
         analysis |->
            [proxyScore |-> proxyScoreOf(l, isTor),
             confidence |-> confidenceOf(l, isTor),
             type |-> connectionType,
             processingTime |-> endTime - l.startTime,
             explanation |-> explanationOf(isTor, connectionType)]]

----------------------------------------------------------------------------
(* The two lookups of detectProxyVPN (route.ts:68-85) *)

lookups == {"geo", "tor"}

\* route.ts:74  AbortSignal.timeout(1500)
GeoTimeoutMs == 1500
\* route.ts:81  AbortSignal.timeout(1000)
TorTimeoutMs == 1000

\* Mutant: the Tor fetch issued only after the geolocation promise was awaited
timeoutSerialized(l) == IF l = "geo" THEN GeoTimeoutMs ELSE GeoTimeoutMs + TorTimeoutMs

timeoutOf(l) == IF l = "geo" THEN GeoTimeoutMs ELSE TorTimeoutMs

\* What a provider does with one fetch: "json" delivers a body that parses
\* (with a 2xx status when ok), "netfail" rejects the fetch, "badjson" makes
\* r.json() reject, "hang" never answers.  latency is the time from the fetch
\* to that event.
Json(body, latency) == [kind |-> "json", ok |-> TRUE, body |-> body, latency |-> latency]
HttpError(body, latency) == [kind |-> "json", ok |-> FALSE, body |-> body, latency |-> latency]
NetFail(latency) == [kind |-> "netfail", ok |-> FALSE, body |-> NullBody, latency |-> latency]
BadJson(latency) == [kind |-> "badjson", ok |-> TRUE, body |-> NullBody, latency |-> latency]
Hang == [kind |-> "hang", ok |-> FALSE, body |-> NullBody, latency |-> 0]

NoPromise == [status |-> "none", value |-> NullBody, at |-> 0]
Pending == [status |-> "pending", value |-> NullBody, at |-> 0]
Fulfilled(value, at) == [status |-> "fulfilled", value |-> value, at |-> at]

\* The abort timer of lookup l fires at this time
deadlineOf(l) == locals.startTime + timeoutOf(l)

\* The provider's answer to lookup l reaches the process at this time
arrivalOf(l) == locals.startTime + env[l].latency

\* Mutant: the fetch without its abort signal, a response is taken whenever
\* it comes
answersWithoutAbort(l) == env[l].kind # "hang"

answers(l) == env[l].kind # "hang" /\ arrivalOf(l) <= deadlineOf(l)

\* The next time at which something happens to the pending lookup l
nextEventOf(l) == IF answers(l) THEN arrivalOf(l) ELSE deadlineOf(l)

NoResult == [none |-> TRUE]
NoLocals == [startTime |-> 0]
IdleClient == [pc |-> "idle"]

----------------------------------------------------------------------------
(* Actions of one detection: GET (route.ts:140-146) calling detectProxyVPN *)

\* route.ts:142, 146, 45-83: the handler computes ip, detectProxyVPN runs up
\* to the await with both fetches issued
DetectBegin ==
    /\ pc = "entry"
    /\ locals' = detectLocals(getRealIP(request), request, now)
    /\ promise' = [l \in lookups |-> Pending]
    /\ pc' = "awaiting"
    /\ UNCHANGED <<request, env, now, result, client, server>>

\* route.ts:75, 82  .then(r => r.json()): the body parsed, whatever the status
LookupRespond(l) ==
    /\ pc = "awaiting"
    /\ promise[l].status = "pending"
    /\ env[l].kind = "json"
    /\ answers(l)
    /\ now = arrivalOf(l)
    /\ promise' = [promise EXCEPT ![l] = Fulfilled(env[l].body, now)]
    /\ UNCHANGED <<request, env, now, pc, locals, result, client, server>>

\* route.ts:75, 82  .catch(() => null) after a rejected fetch or r.json()
LookupFail(l) ==
    /\ pc = "awaiting"
    /\ promise[l].status = "pending"
    /\ env[l].kind \in {"netfail", "badjson"}
    /\ answers(l)
    /\ now = arrivalOf(l)
    /\ promise' = [promise EXCEPT ![l] = Fulfilled(NullBody, now)]
    /\ UNCHANGED <<request, env, now, pc, locals, result, client, server>>

\* Mutant: one AbortSignal shared by both fetches, so that the first timeout
\* aborts the other lookup too
LookupTimeoutShared(l) ==
    /\ pc = "awaiting"
    /\ promise[l].status = "pending"
    /\ now = locals.startTime + timeoutOf(l)
    /\ promise' = [k \in lookups |->
                      IF promise[k].status = "pending"
                      THEN [status |-> "fulfilled", value |-> NullBody, at |-> now]
                      ELSE promise[k]]
    /\ UNCHANGED <<request, env, now, pc, locals, result, client, server>>

\* route.ts:74, 81  the abort signal fires, the fetch rejects, .catch gives null
LookupTimeout(l) ==
    /\ pc = "awaiting"
    /\ promise[l].status = "pending"
    /\ now = deadlineOf(l)
    /\ promise' = [promise EXCEPT ![l] = Fulfilled(NullBody, now)]
    /\ UNCHANGED <<request, env, now, pc, locals, result, client, server>>

\* Time passes up to the next event of a pending lookup; timers and
\* responses are not delayed
Tick ==
    /\ pc = "awaiting"
    /\ \E l \in lookups : promise[l].status = "pending"
    /\ \A l \in lookups : promise[l].status = "pending" => nextEventOf(l) > now
    /\ now' = CHOOSE t \in {nextEventOf(l) : l \in {k \in lookups : promise[k].status = "pending"}} :
                \A l \in lookups : promise[l].status = "pending" => t <= nextEventOf(l)
    /\ UNCHANGED <<request, env, pc, locals, promise, result, client, server>>

\* route.ts:85-137: Promise.allSettled resolves once both promises settled,
\* and the function returns its object or raises the TypeError of line 98/99
DetectResume ==
    /\ pc = "awaiting"
    /\ \A l \in lookups : promise[l].status \notin {"none", "pending"}
    /\ LET geo == settledValue(promise["geo"])
           tor == settledValue(promise["tor"])
       IN  IF fallbackThrows(geo, tor)
           THEN pc' = "threw" /\ result' = NoResult
           ELSE pc' = "returned" /\ result' = verdictOf(locals, geo, tor, now)
    /\ UNCHANGED <<request, env, now, locals, promise, client, server>>

Next ==
    \/ DetectBegin
    \/ \E l \in lookups : LookupRespond(l)
    \/ \E l \in lookups : LookupFail(l)
    \/ \E l \in lookups : LookupTimeout(l)
    \/ Tick
    \/ DetectResume

----------------------------------------------------------------------------
(* Inputs: requests *)

\* The header names section 6 of the specification enumerates
enumeratedHeaders ==
    {"x-forwarded-for", "x-real-ip", "x-forwarded-proto", "x-forwarded-host",
     "x-cluster-client-ip", "x-originating-ip", "cf-connecting-ip", "true-client-ip",
     "x-client-ip", "fastly-client-ip", "x-azure-clientip", "x-azure-socketip"}

NoHeaders == [h \in {} |-> <<>>]

Addr == <<"1","9","8",".","5","1",".","1","0","0",".","7">>
ScenarioXff == <<"2","0","3",".","0",".","1","1","3",".","5",","," ","1","0",".","0",".","0",".","1">>
Mozilla == <<"M","o","z","i","l","l","a","/","5",".","0">>

\* Sets of proxy-related headers a request may carry
HeaderSets ==
    {NoHeaders}
    \cup {h :> Addr : h \in enumeratedHeaders}
    \cup {"accept" :> <<"*","/","*">>,
          "x-forwarded-for" :> ScenarioXff,
          "x-forwarded-for" :> <<>>,
          "x-real-ip" :> <<" ">>,
          "x-forwarded-for" :> <<",","1",".","1",".","1",".","1">>,
          ("x-forwarded-for" :> ScenarioXff) @@ ("cf-connecting-ip" :> Addr),
          ("x-forwarded-for" :> <<",","1",".","1",".","1",".","1">>) @@ ("cf-connecting-ip" :> Addr),
          ("x-real-ip" :> Addr) @@ ("x-client-ip" :> Addr),
          [h \in enumeratedHeaders |-> Addr]}

\* The user-agent header, present or not
UserAgents ==
    {NoHeaders,
     "user-agent" :> Mozilla,
     "user-agent" :> <<"G","o","o","g","l","e","b","o","t","/","2",".","1">>,
     "user-agent" :> <<"M","y"," ","S","P","I","D","E","R">>}

Requests == {[headers |-> hs @@ ua] : hs \in HeaderSets, ua \in UserAgents}

XffCommaSpace == <<"1",".","1",".","1",".","1",","," ","2",".","2",".","2",".","2">>
XffComma == <<"1",".","1",".","1",".","1",",","2",".","2",".","2",".","2">>
XffCommas == <<",","1",".","1",".","1",".","1",",">>
XffSpaced == <<" ","1",".","1",".","1",".","1"," ",","," ","2",".","2",".","2",".","2"," ">>

\* Forwarded-for values: every string over a small alphabet up to a length,
\* and the values the specification names
MaxXffLen == 4
XffAlphabet == {"1", "2", " ", ","}
XffStrings ==
    UNION {[1..n -> XffAlphabet] : n \in 0..MaxXffLen}
    \cup {ScenarioXff, XffCommaSpace, XffComma, XffSpaced, XffCommas, <<"1",".","1",".","1",".","1"," ",",","\t","2",".","2",".","2",".","2">>}

\* The three headers getRealIP reads, each absent, present and blank, or
\* present with an address
CdnAddr == <<"1","9","2",".","0",".","2",".","1">>
ipHeaderValues ==
    [h \in {"cf-connecting-ip", "x-forwarded-for", "x-real-ip"} |->
        CASE h = "cf-connecting-ip" -> {<<>>, CdnAddr}
          [] h = "x-forwarded-for" -> {<<" ">>, ScenarioXff}
          [] OTHER -> {<<>>, Addr}]
IpHeaderSets ==
    UNION {{hs \in [S -> {<<>>, <<" ">>, CdnAddr, ScenarioXff, Addr}] :
                \A h \in S : hs[h] \in ipHeaderValues[h]} :
           S \in SUBSET DOMAIN ipHeaderValues}

ParseRequests ==
    {[headers |-> ("x-forwarded-for" :> x) @@ ("user-agent" :> Mozilla)] : x \in XffStrings}
    \cup {[headers |-> hs] : hs \in IpHeaderSets}

----------------------------------------------------------------------------
(* Inputs: what the lookup providers do *)

Quick == 50
Between == 1200
Late == 1800

GeoRecord(isp, org, proxy, hosting) ==
    ObjectBody([status |-> Str(<<"s","u","c","c","e","s","s">>), isp |-> isp, org |-> org,
                proxy |-> Bool(proxy), hosting |-> Bool(hosting)])

PlainIsp == <<"C","o","m","c","a","s","t"," ","C","a","b","l","e">>
TorIsp == <<"T","o","r"," ","E","x","i","t"," ","N","o","d","e">>
LookalikeIsp == <<"M","o","n","i","t","o","r"," ","H","o","s","t","i","n","g">>
FoundationOrg == <<"P","r","i","v","a","c","y"," ","F","o","u","n","d","a","t","i","o","n">>

\* Bodies of the documented shape {status, isp, org, proxy, hosting}
RecordGeoBodies ==
    {GeoRecord(Str(isp), Str(org), proxy, hosting) :
        isp \in {PlainIsp, TorIsp, LookalikeIsp}, org \in {<<>>, FoundationOrg},
        proxy \in BOOLEAN, hosting \in BOOLEAN}

\* ip-api.com's answer to a query it refuses: no isp, org, proxy or hosting
FailGeoBody == ObjectBody([status |-> Str(<<"f","a","i","l">>)])

\* Bodies that parse but have an unexpected shape
MalformedGeoBodies ==
    {GeoRecord(Num(15169), Str(PlainIsp), FALSE, FALSE),
     GeoRecord(Str(PlainIsp), Obj, TRUE, FALSE),
     PrimitiveBody(Str(<<"r","a","t","e"," ","l","i","m","i","t","e","d">>)),
     PrimitiveBody(Num(0))}

GeoBehaviours ==
    {Json(b, Quick) : b \in RecordGeoBodies \cup MalformedGeoBodies \cup {FailGeoBody, NullBody}}
    \cup {Json(GeoRecord(Str(TorIsp), Str(<<>>), FALSE, FALSE), t) : t \in {Between, Late}}
    \cup {Json(GeoRecord(Str(PlainIsp), Str(<<>>), TRUE, TRUE), Between),
          HttpError(GeoRecord(Str(PlainIsp), Str(<<>>), TRUE, FALSE), Quick),
          NetFail(Quick), BadJson(Quick), Hang}

TorBodies ==
    {ObjectBody([IsTor |-> Bool(TRUE)]), ObjectBody([IsTor |-> Bool(FALSE)]),
     ObjectBody([IsTor |-> Str(<<"t","r","u","e">>)]), ObjectBody(NoHeaders)}

TorBehaviours ==
    {Json(b, Quick) : b \in TorBodies}
    \cup {Json(ObjectBody([IsTor |-> Bool(TRUE)]), Between),
          HttpError(ObjectBody([IsTor |-> Bool(TRUE)]), Quick),
          NetFail(Quick), BadJson(Quick), Hang}

Envs == {[geo |-> g, tor |-> t] : g \in GeoBehaviours, t \in TorBehaviours}

\* A few providers, enough for every kind of lookup outcome
ParseEnvs ==
    {[geo |-> Json(GeoRecord(Str(PlainIsp), Str(<<>>), FALSE, FALSE), Quick), tor |-> Hang],
     [geo |-> NetFail(Quick), tor |-> Json(ObjectBody([IsTor |-> Bool(FALSE)]), Quick)],
     [geo |-> Hang, tor |-> BadJson(Quick)]}

----------------------------------------------------------------------------
(* captureComprehensiveData of page.tsx: the parallel calls (page.tsx:88-168) *)

\* page.tsx:127  the order of the promises array
sources == <<"main", "ipapi", "ipify", "ipApiCom">>
geoSources == <<"ipapi", "ipify", "ipApiCom">>
sourceNames == {sources[i] : i \in DOMAIN sources}

\* page.tsx:105, 112, 119  AbortSignal.timeout(2000)
ClientTimeoutMs == 2000

\* page.tsx:98  .catch(e => ({ error: 'main_failed' }))
MainFailed == ObjectBody([error |-> Str(<<"m","a","i","n","_","f","a","i","l","e","d">>)])

\* page.tsx:98, 106, 113, 120: the value a rejected call is turned into
rejectedValue(s) == IF s = "main" THEN MainFailed ELSE NullBody

\* Only the three geolocation calls carry an abort signal
hasTimeout(s) == s # "main"

sourceArrival(s) == client.startTime + env[s].latency
sourceDeadline(s) == client.startTime + ClientTimeoutMs
sourceAnswers(s) ==
    env[s].kind # "hang" /\ (hasTimeout(s) => sourceArrival(s) <= sourceDeadline(s))
sourceSettles(s) == sourceAnswers(s) \/ hasTimeout(s)
sourceNextEvent(s) == IF sourceAnswers(s) THEN sourceArrival(s) ELSE sourceDeadline(s)

\* page.tsx:132  result.status === 'fulfilled' && result.value && !result.value.error
usable(p) ==
    /\ p.status = "fulfilled"
    /\ Truthy(p.value.v)
    /\ ~Truthy(Prop(p.value, "error"))

\* page.tsx:130-136: the first usable result in the order of geoSources
RECURSIVE firstUsable(_, _)
firstUsable(ps, i) ==
    IF i > Len(geoSources) THEN NullBody
    ELSE IF usable(ps[geoSources[i]]) THEN ps[geoSources[i]].value
    ELSE firstUsable(ps, i + 1)

\* page.tsx:145
sourceLabel(geoData) ==
    IF Truthy(Prop(geoData, "ip")) THEN "ipapi.co"
    ELSE IF Truthy(Prop(geoData, "query")) THEN "ip-api.com"
    ELSE "ipify"

\* page.tsx:139-168: the reports posted once the results are processed
reportsOf(geoData) ==
    (IF Truthy(geoData.v)
     THEN <<[type |-> "GEOLOCATION_DATA", source |-> sourceLabel(geoData)]>>
     ELSE <<>>)
    \o <<[type |-> "PERFORMANCE_METRICS", source |-> ""]>>

\* page.tsx:43, 88-121: the four calls are issued
CaptureBegin ==
    /\ client.pc = "start"
    /\ client' = [pc |-> "awaiting", startTime |-> now,
                  promises |-> [s \in sourceNames |-> Pending],
                  geoData |-> NullBody, reports |-> <<>>, resumedAt |-> 0]
    /\ UNCHANGED <<request, env, now, pc, locals, promise, result, server>>

\* page.tsx:98, 106, 113, 120  .then(r => r.json())
SourceRespond(s) ==
    /\ client.pc = "awaiting"
    /\ client.promises[s].status = "pending"
    /\ env[s].kind = "json"
    /\ sourceAnswers(s)
    /\ now = sourceArrival(s)
    /\ client' = [client EXCEPT !.promises[s] = Fulfilled(env[s].body, now)]
    /\ UNCHANGED <<request, env, now, pc, locals, promise, result, server>>

\* page.tsx:98, 106, 113, 120  .catch(...) after a rejected fetch or r.json()
SourceFail(s) ==
    /\ client.pc = "awaiting"
    /\ client.promises[s].status = "pending"
    /\ env[s].kind \in {"netfail", "badjson"}
    /\ sourceAnswers(s)
    /\ now = sourceArrival(s)
    /\ client' = [client EXCEPT !.promises[s] = Fulfilled(rejectedValue(s), now)]
    /\ UNCHANGED <<request, env, now, pc, locals, promise, result, server>>

\* page.tsx:105, 112, 119  the abort signal of a geolocation call fires
SourceTimeout(s) ==
    /\ client.pc = "awaiting"
    /\ hasTimeout(s)
    /\ client.promises[s].status = "pending"
    /\ now = sourceDeadline(s)
    /\ client' = [client EXCEPT !.promises[s] = Fulfilled(rejectedValue(s), now)]
    /\ UNCHANGED <<request, env, now, pc, locals, promise, result, server>>

\* Time passes up to the next event of a pending call
ClientTick ==
    /\ client.pc = "awaiting"
    /\ LET waiting == {s \in sourceNames : client.promises[s].status = "pending" /\ sourceSettles(s)}
       IN  /\ waiting # {}
           /\ \A s \in waiting : sourceNextEvent(s) > now
           /\ now' = CHOOSE t \in {sourceNextEvent(s) : s \in waiting} :
                        \A s \in waiting : t <= sourceNextEvent(s)
    /\ UNCHANGED <<request, env, pc, locals, promise, result, client, server>>

\* page.tsx:124-168: Promise.allSettled resolves once all four promises
\* settled; the geolocation result is chosen and the reports are posted
CaptureResume ==
    /\ client.pc = "awaiting"
    /\ \A s \in sourceNames : client.promises[s].status = "fulfilled"
    /\ LET geoData == firstUsable(client.promises, 1)
       IN  client' = [client EXCEPT !.pc = "completed", !.geoData = geoData,
                                    !.reports = reportsOf(geoData), !.resumedAt = now]
    /\ UNCHANGED <<request, env, now, pc, locals, promise, result, server>>

NextClient ==
    \/ CaptureBegin
    \/ \E s \in sourceNames : SourceRespond(s)
    \/ \E s \in sourceNames : SourceFail(s)
    \/ \E s \in sourceNames : SourceTimeout(s)
    \/ ClientTick
    \/ CaptureResume

\* What the three geolocation services and the own server may do
IpapiBody == ObjectBody([ip |-> Str(Addr)])
IpapiErrorBody == ObjectBody([error |-> Bool(TRUE)])
IpifyBody == ObjectBody([ip |-> Str(Addr)])
IpApiComBody == ObjectBody([status |-> Str(<<"s","u","c","c","e","s","s">>), query |-> Str(Addr)])
MainBody == ObjectBody([status |-> Undefined])

ClientEnvs ==
    {[main |-> m, ipapi |-> a, ipify |-> b, ipApiCom |-> c] :
        m \in {Json(MainBody, Quick), Json(MainBody, Late), NetFail(Quick), Hang},
        a \in {Json(IpapiBody, Quick), Json(IpapiBody, Between), Json(IpapiErrorBody, Quick),
               NetFail(Quick), Hang},
        b \in {Json(IpifyBody, Quick), Json(IpifyBody, Between), BadJson(Quick), Hang},
        c \in {Json(IpApiComBody, Quick), Json(IpApiComBody, Between), NetFail(Between), Hang}}

----------------------------------------------------------------------------
(* The server process: session tracking and the GET and POST handlers *)

\* route.ts:182  request.headers.get('user-agent') || 'Unknown'
userAgentOf(req) ==
    LET userAgent == HeadersGet(req, "user-agent")
    IN  IF Truthy(userAgent) THEN userAgent.s ELSE UnknownIP

\* route.ts:12  `${ip}_${userAgent}`
sessionKey(ip, userAgent) == ip \o <<"_">> \o userAgent

\* route.ts:7-11  `SESSION_${sessionCounter++}_${Date.now()}`: the two numbers
\* the string is built from
generateSessionId(counter, t) == [counter |-> counter, time |-> t]

\* Mutant: line 25 as a write of a count read earlier, so that the second of
\* two updates at the same instant is lost
sessionsAfterLostUpdate(sessions, counter, ip, userAgent, t) ==
    LET key == sessionKey(ip, userAgent)
    IN  IF key \in DOMAIN sessions
        THEN [sessions EXCEPT
                ![key].visitCount = IF sessions[key].lastSeen = t THEN @ ELSE @ + 1,
                ![key].lastSeen = t]
        ELSE (key :> [sessionId |-> generateSessionId(counter, t),
                      firstSeen |-> t,
                      visitCount |-> 1,
                      lastSeen |-> t]) @@ sessions

\* Mutant: line 14 without the has() test, every call stores a new entry
sessionsAfterFresh(sessions, counter, ip, userAgent, t) ==
    LET key == sessionKey(ip, userAgent)
        created ==
            (key :> [sessionId |-> generateSessionId(counter, t),
                     firstSeen |-> t,
                     visitCount |-> 0,
                     lastSeen |-> t]) @@ sessions
    IN  [created EXCEPT ![key].visitCount = @ + 1, ![key].lastSeen = t]

\* route.ts:11-29  the session map after getOrCreateSession(ip, userAgent)
sessionsAfter(sessions, counter, ip, userAgent, t) ==
    LET key == sessionKey(ip, userAgent)
        created ==
            IF key \in DOMAIN sessions THEN sessions
            ELSE (key :> [sessionId |-> generateSessionId(counter, t),
                          firstSeen |-> t,
                          visitCount |-> 0,
                          lastSeen |-> t]) @@ sessions
    IN  [created EXCEPT ![key].visitCount = @ + 1, ![key].lastSeen = t]

\* route.ts:8, 14-15  the counter after getOrCreateSession(ip, userAgent)
counterAfter(sessions, counter, ip, userAgent) ==
    IF sessionKey(ip, userAgent) \in DOMAIN sessions THEN counter ELSE counter + 1

\* route.ts:11, 28  the history of calls after getOrCreateSession(ip, userAgent)
\* returned sessionId: per key the number of calls and the identifiers returned
callsAfter(calls, ip, userAgent, sessionId) ==
    LET key == sessionKey(ip, userAgent)
    IN  IF key \in DOMAIN calls
        THEN [calls EXCEPT ![key].count = @ + 1, ![key].returned = @ \cup {sessionId}]
        ELSE (key :> [count |-> 1, returned |-> {sessionId}]) @@ calls

\* The message types of route.ts:189-236
InstantCapture == <<"I","N","S","T","A","N","T","_","C","A","P","T","U","R","E">>
PerformanceMetrics == <<"P","E","R","F","O","R","M","A","N","C","E","_","M","E","T","R","I","C","S">>
CaptureError == <<"C","A","P","T","U","R","E","_","E","R","R","O","R">>
GeolocationData == <<"G","E","O","L","O","C","A","T","I","O","N","_","D","A","T","A">>
MainData == <<"M","A","I","N","_","D","A","T","A">>
UnknownType == <<"U","N","K","N","O","W","N">>

\* A request body: text that JSON.parse rejects, or the value it parses to
Unparseable == [parsed |-> FALSE, json |-> NullBody]
Parsed(json) == [parsed |-> TRUE, json |-> json]
NoPayload == Unparseable

\* route.ts:186  clientData.type || 'UNKNOWN'
dataTypeOf(clientData) ==
    IF Truthy(Prop(clientData, "type")) THEN Prop(clientData, "type") ELSE Str(UnknownType)

\* route.ts:186  reading a property of null raises a TypeError
typeReadThrows(clientData) == clientData.v.t \in {"null", "undefined"}

\* route.ts:195  clientData.userAgent.split(' ') raises a TypeError unless
\* userAgent is a string
browserLogThrows(clientData) == Prop(clientData, "userAgent").t # "string"

\* Responses
NoResponse == [status |-> 0, success |-> FALSE]

\* route.ts:281-285
errorResponse == [status |-> 400, success |-> FALSE]

\* route.ts:198-203
instantResponse(sessionId) ==
    [status |-> 200, success |-> TRUE, message |-> "Instant capture logged",
     sessionId |-> sessionId]

\* route.ts:213, 219, 229
ackResponse(message) == [status |-> 200, success |-> TRUE, message |-> message]

\* route.ts:265-277
mainResponse(dataType, session, ip, proxyDetection) ==
    LET detected == proxyDetection # NoResult
    IN  [status |-> 200, success |-> TRUE, message |-> dataType,
         sessionId |-> session.sessionId,
         visitCount |-> session.visitCount,
         serverDetectedIP |-> ip,
         realIP |-> IF detected /\ proxyDetection.realIP # <<>>
                    THEN proxyDetection.realIP ELSE ip,
         isProxy |-> (detected /\ proxyDetection.isLikelyProxy),
         isTor |-> (detected /\ proxyDetection.isTor),
         proxyType |-> IF detected THEN proxyDetection.analysis.type ELSE "Unknown"]

\* route.ts:171-175
getResponse(ip) == [status |-> 200, success |-> TRUE, message |-> "captured", ip |-> ip]

\* GET has no try/catch: the framework answers an escaped exception with 500
crashResponse == [status |-> 500, success |-> FALSE]

\* The handler slots of the server process
handlerIds == {"h1", "h2"}
MaxRequests == 2

\* The slots are interchangeable: a new call takes the first free one
slotOrder == <<"h1", "h2">>
firstFree(h) ==
    /\ handlers[h].pc = "idle"
    /\ \A i, j \in DOMAIN slotOrder :
          i < j /\ slotOrder[j] = h => handlers[slotOrder[i]].pc # "idle"

IdleHandler ==
    [pc |-> "idle", method |-> "none", request |-> [headers |-> NoHeaders],
     payload |-> NoPayload, provider |-> [l \in lookups |-> NullBody],
     promise |-> [l \in lookups |-> NoPromise], locals |-> NoLocals, startTime |-> 0,
     proxyDetection |-> NoResult, response |-> NoResponse]

\* Requests, request bodies and lookup results the server is driven with
ServerRequests ==
    {[headers |-> NoHeaders],
     [headers |-> ("x-forwarded-for" :> ScenarioXff) @@ ("user-agent" :> Mozilla)]}

MainPayload == ObjectBody([type |-> Str(MainData)])

Payloads ==
    {Unparseable,
     Parsed(NullBody),
     Parsed(ObjectBody([userAgent |-> Str(Mozilla)])),
     Parsed(ObjectBody([type |-> Str(InstantCapture), userAgent |-> Str(Mozilla)])),
     Parsed(ObjectBody([type |-> Str(InstantCapture)])),
     Parsed(ObjectBody([type |-> Str(PerformanceMetrics)])),
     Parsed(ObjectBody([type |-> Str(CaptureError)])),
     Parsed(ObjectBody([type |-> Str(GeolocationData)])),
     Parsed(MainPayload)}

\* What the two fetch chains of one detection settle with: null after a
\* failure or timeout, or the parsed body
ServerLookupValues ==
    {[geo |-> NullBody, tor |-> NullBody],
     [geo |-> GeoRecord(Str(TorIsp), Str(<<>>), FALSE, FALSE), tor |-> NullBody],
     [geo |-> GeoRecord(Num(15169), Str(PlainIsp), FALSE, FALSE), tor |-> NullBody],
     [geo |-> NullBody, tor |-> ObjectBody([IsTor |-> Bool(TRUE)])]}

\* A lookup result cached across calls: the result another call already holds
lookupValueCached(hs, h, l) ==
    LET holders == {g \in handlerIds \ {h} : hs[g].promise[l].status = "fulfilled"}
    IN  IF holders = {} THEN settledValue(hs[h].promise[l])
        ELSE settledValue(hs[CHOOSE g \in holders : TRUE].promise[l])

\* route.ts:85-89  the value detection of call h reads for lookup l: the one its
\* own promise settled with
lookupValue(hs, h, l) == settledValue(hs[h].promise[l])

\* route.ts:141-146  GET runs up to the await inside detectProxyVPN, both
\* fetches issued
GetAccept(h) ==
    /\ firstFree(h)
    /\ accepted < MaxRequests
    /\ \E req \in ServerRequests, values \in ServerLookupValues :
          handlers' = [handlers EXCEPT ![h] =
              [IdleHandler EXCEPT !.pc = "detecting", !.method = "GET",
                  !.request = req,
                  !.provider = values,
                  !.promise = [l \in lookups |-> Pending],
                  !.locals = detectLocals(getRealIP(req), req, now + 1),
                  !.startTime = now + 1]]
    /\ accepted' = accepted + 1
    /\ now' = now + 1
    /\ UNCHANGED <<request, env, pc, locals, promise, result, client,
                   visitorSessions, sessionCounter, sessionCalls>>

\* route.ts:179-185  POST runs up to await request.json()
PostAccept(h) ==
    /\ firstFree(h)
    /\ accepted < MaxRequests
    /\ \E req \in ServerRequests, body \in Payloads :
       \E values \in (IF body = Parsed(MainPayload) THEN ServerLookupValues
                      ELSE {[l \in lookups |-> NullBody]}) :
          handlers' = [handlers EXCEPT ![h] =
              [IdleHandler EXCEPT !.pc = "parsing", !.method = "POST",
                  !.request = req, !.payload = body,
                  !.provider = values,
                  !.startTime = now + 1]]
    /\ accepted' = accepted + 1
    /\ now' = now + 1
    /\ UNCHANGED <<request, env, pc, locals, promise, result, client,
                   visitorSessions, sessionCounter, sessionCalls>>

\* route.ts:74-83  one of the two fetches of call h settles: its chain ends in
\* the parsed body, or in null after a failure or the timeout
HandlerLookupSettle(h, l) ==
    /\ handlers[h].pc = "detecting"
    /\ handlers[h].promise[l].status = "pending"
    /\ handlers' = [handlers EXCEPT
          ![h].promise[l] = Fulfilled(handlers[h].provider[l], now)]
    /\ UNCHANGED <<request, env, now, pc, locals, promise, result, client,
                   visitorSessions, sessionCounter, accepted, sessionCalls>>

allSettled(h) == \A l \in lookups : handlers[h].promise[l].status = "fulfilled"

\* route.ts:85-137, 146-175  detection of a GET resumes and the handler answers
GetDetected(h) ==
    /\ handlers[h].pc = "detecting" /\ handlers[h].method = "GET"
    /\ allSettled(h)
    /\ LET geo == lookupValue(handlers, h, "geo")
           tor == lookupValue(handlers, h, "tor")
           ip == getRealIP(handlers[h].request)
       IN  handlers' = [handlers EXCEPT ![h] =
              IF fallbackThrows(geo, tor)
              THEN [handlers[h] EXCEPT !.pc = "done", !.response = crashResponse]
              ELSE [handlers[h] EXCEPT !.pc = "done",
                       !.proxyDetection = verdictOf(handlers[h].locals, geo, tor, now),
                       !.response = getResponse(ip)]]
    /\ UNCHANGED <<request, env, now, pc, locals, promise, result, client,
                   visitorSessions, sessionCounter, accepted, sessionCalls>>

\* route.ts:186-236  POST resumes with the body read: every message type but
\* MAIN_DATA is answered here, MAIN_DATA runs up to the await inside
\* detectProxyVPN; route.ts:279-286 answers whatever was thrown
PostParsed(h) ==
    /\ handlers[h].pc = "parsing"
    /\ LET hd == handlers[h]
           ip == getRealIP(hd.request)
           userAgent == userAgentOf(hd.request)
           clientData == hd.payload.json
           dataType == dataTypeOf(clientData)
           sessions == sessionsAfter(visitorSessions, sessionCounter, ip, userAgent, now)
           counter == counterAfter(visitorSessions, sessionCounter, ip, userAgent)
           session == sessions[sessionKey(ip, userAgent)]
           answer(r) == handlers' = [handlers EXCEPT ![h] =
                            [hd EXCEPT !.pc = "done", !.response = r]]
       IN  CASE ~hd.payload.parsed \/ typeReadThrows(clientData) ->
                  /\ answer(errorResponse)
                  /\ UNCHANGED <<visitorSessions, sessionCounter, sessionCalls>>
             [] OTHER ->
                  CASE dataType = Str(InstantCapture) ->
                         /\ visitorSessions' = sessions
                         /\ sessionCounter' = counter
                         /\ sessionCalls' = callsAfter(sessionCalls, ip, userAgent, session.sessionId)
                         /\ IF browserLogThrows(clientData)
                            THEN answer(errorResponse)
                            ELSE answer(instantResponse(session.sessionId))
                    [] dataType = Str(PerformanceMetrics) ->
                         /\ answer(ackResponse("Metrics logged"))
                         /\ UNCHANGED <<visitorSessions, sessionCounter, sessionCalls>>
                    [] dataType = Str(CaptureError) ->
                         /\ answer(ackResponse("Error logged"))
                         /\ UNCHANGED <<visitorSessions, sessionCounter, sessionCalls>>
                    [] dataType = Str(GeolocationData) ->
                         /\ answer(ackResponse("Geolocation logged"))
                         /\ UNCHANGED <<visitorSessions, sessionCounter, sessionCalls>>
                    [] dataType = Str(MainData) ->
                         /\ handlers' = [handlers EXCEPT ![h] =
                               [hd EXCEPT !.pc = "detecting",
                                   !.promise = [l \in lookups |-> Pending],
                                   !.locals = detectLocals(ip, hd.request, now)]]
                         /\ UNCHANGED <<visitorSessions, sessionCounter, sessionCalls>>
                    [] OTHER ->
                         /\ visitorSessions' = sessions
                         /\ sessionCounter' = counter
                         /\ sessionCalls' = callsAfter(sessionCalls, ip, userAgent, session.sessionId)
                         /\ answer(mainResponse(dataType, session, ip, NoResult))
    /\ UNCHANGED <<request, env, now, pc, locals, promise, result, client, accepted>>

\* route.ts:85-137, 236-277  detection of a MAIN_DATA POST resumes, the session
\* is counted and the handler answers; route.ts:279-286 when detection threw
PostDetected(h) ==
    /\ handlers[h].pc = "detecting" /\ handlers[h].method = "POST"
    /\ allSettled(h)
    /\ LET hd == handlers[h]
           geo == lookupValue(handlers, h, "geo")
           tor == lookupValue(handlers, h, "tor")
           ip == getRealIP(hd.request)
           userAgent == userAgentOf(hd.request)
           proxyDetection == verdictOf(hd.locals, geo, tor, now)
           sessions == sessionsAfter(visitorSessions, sessionCounter, ip, userAgent, now)
           session == sessions[sessionKey(ip, userAgent)]
       IN  IF fallbackThrows(geo, tor)
           THEN /\ handlers' = [handlers EXCEPT ![h] =
                      [hd EXCEPT !.pc = "done", !.response = errorResponse]]
                /\ UNCHANGED <<visitorSessions, sessionCounter, sessionCalls>>
           ELSE /\ visitorSessions' = sessions
                /\ sessionCounter' =
                      counterAfter(visitorSessions, sessionCounter, ip, userAgent)
                /\ sessionCalls' = callsAfter(sessionCalls, ip, userAgent, session.sessionId)
                /\ handlers' = [handlers EXCEPT ![h] =
                      [hd EXCEPT !.pc = "done",
                          !.proxyDetection = proxyDetection,
                          !.response = mainResponse(Str(MainData), session, ip,
                                                    proxyDetection)]]
    /\ UNCHANGED <<request, env, now, pc, locals, promise, result, client, accepted>>

\* The response is sent and the call's locals are gone
HandlerReturn(h) ==
    /\ handlers[h].pc = "done"
    /\ handlers' = [handlers EXCEPT ![h] = IdleHandler]
    /\ UNCHANGED <<request, env, now, pc, locals, promise, result, client,
                   visitorSessions, sessionCounter, accepted, sessionCalls>>

\* getOrCreateSession called on its own: the addresses and user agents it is
\* called with; the key of ('1', '2_3') is the key of ('1_2', '3')
SessionIps == {<<"1">>, <<"1","_","2">>}
SessionAgents == {<<"3">>, <<"2","_","3">>}
MaxCalls == 3

\* route.ts:11-29  one call of getOrCreateSession(ip, userAgent), now or a
\* millisecond later
RECURSIVE callCount(_, _)
callCount(calls, keys) ==
    IF keys = {} THEN 0
    ELSE LET key == CHOOSE k \in keys : TRUE
         IN  calls[key].count + callCount(calls, keys \ {key})

SessionCall ==
    /\ callCount(sessionCalls, DOMAIN sessionCalls) < MaxCalls
    /\ \E ip \in SessionIps, userAgent \in SessionAgents, dt \in {0, 1} :
          LET t == now + dt
              sessions == sessionsAfter(visitorSessions, sessionCounter, ip, userAgent, t)
          IN  /\ now' = t
              /\ visitorSessions' = sessions
              /\ sessionCounter' = counterAfter(visitorSessions, sessionCounter, ip, userAgent)
              /\ sessionCalls' = callsAfter(sessionCalls, ip, userAgent,
                                            sessions[sessionKey(ip, userAgent)].sessionId)
    /\ UNCHANGED <<request, env, pc, locals, promise, result, client, handlers, accepted>>

NextSession == SessionCall

NextServer ==
    \/ \E h \in handlerIds : GetAccept(h)
    \/ \E h \in handlerIds : PostAccept(h)
    \/ \E h \in handlerIds, l \in lookups : HandlerLookupSettle(h, l)
    \/ \E h \in handlerIds : GetDetected(h)
    \/ \E h \in handlerIds : PostParsed(h)
    \/ \E h \in handlerIds : PostDetected(h)
    \/ \E h \in handlerIds : HandlerReturn(h)

----------------------------------------------------------------------------
(* Specifications *)

InitWith(req, e) ==
    /\ request = req
    /\ env = e
    /\ now = 0
    /\ pc = "entry"
    /\ locals = NoLocals
    /\ promise = [l \in lookups |-> NoPromise]
    /\ result = NoResult
    /\ client = IdleClient
    /\ visitorSessions = <<>>
    /\ sessionCounter = 1
    /\ handlers = [h \in handlerIds |-> IdleHandler]
    /\ accepted = 0
    /\ sessionCalls = <<>>

Init == \E req \in Requests, e \in Envs : InitWith(req, e)

Spec == Init /\ [][Next]_vars

InitParse == \E req \in ParseRequests, e \in ParseEnvs : InitWith(req, e)

SpecParse == InitParse /\ [][Next]_vars

InitClient ==
    /\ request = [headers |-> NoHeaders]
    /\ env \in ClientEnvs
    /\ now = 0
    /\ pc = "idle"
    /\ locals = NoLocals
    /\ promise = [l \in lookups |-> NoPromise]
    /\ result = NoResult
    /\ client = [pc |-> "start"]
    /\ visitorSessions = <<>>
    /\ sessionCounter = 1
    /\ handlers = [h \in handlerIds |-> IdleHandler]
    /\ accepted = 0
    /\ sessionCalls = <<>>

SpecClient == InitClient /\ [][NextClient]_vars

\* route.ts:3-5: the server process starts with an empty session map, the
\* counter at 1 and no call in progress
InitServer ==
    /\ request = [headers |-> NoHeaders]
    /\ env = [l \in lookups |-> Hang]
    /\ now = 0
    /\ pc = "idle"
    /\ locals = NoLocals
    /\ promise = [l \in lookups |-> NoPromise]
    /\ result = NoResult
    /\ client = IdleClient
    /\ visitorSessions = <<>>
    /\ sessionCounter = 1
    /\ handlers = [h \in handlerIds |-> IdleHandler]
    /\ accepted = 0
    /\ sessionCalls = <<>>

SpecServer == InitServer /\ [][NextServer]_vars

\* getOrCreateSession called any number of times in a fresh process
SpecSession == InitServer /\ [][NextSession]_vars

----------------------------------------------------------------------------
(* Claims about detectProxyVPN *)

finished == pc \in {"returned", "threw"}

\* The value the lookup l contributed is absent (null)
absent(l) == promise[l].value = NullBody

\* The Tor lookup delivered a body that asserts a known exit node
torAsserted ==
    /\ promise["tor"].status = "fulfilled"
    /\ promise["tor"].value.v.t = "object"
    /\ promise["tor"].value.f["IsTor"] = Bool(TRUE)

\* The geolocation result the verdict carries reports the boolean flag k
geoReports(k) ==
    /\ result.geoData.v.t = "object"
    /\ result.geoData.f[k] = Bool(TRUE)

rawUserAgent ==
    IF "user-agent" \in DOMAIN request.headers THEN request.headers["user-agent"] ELSE <<>>

\* The x-forwarded-for header as sent, empty when the request has none
rawForwardedFor ==
    IF "x-forwarded-for" \in DOMAIN request.headers
    THEN request.headers["x-forwarded-for"] ELSE <<>>

\* C1: a verdict with isTor = true has realIP 'Hidden by Tor Network' and type
\* 'Tor Network'; and whenever the Tor lookup result asserts IsTor true, a
\* verdict is returned with isTor = true and those two values, whatever the
\* geolocation flags, the matched headers and the chain are.
C1_TorVerdict ==
    finished =>
        /\ (pc = "returned" /\ result.isTor) =>
                (result.realIP = HiddenByTor /\ result.analysis.type = "Tor Network")
        /\ torAsserted =>
                /\ pc = "returned"
                /\ result.isTor
                /\ result.realIP = HiddenByTor
                /\ result.analysis.type = "Tor Network"

C1_Witness ==
    /\ pc = "returned"
    /\ torAsserted
    /\ geoReports("proxy") /\ geoReports("hosting")
    /\ Len(result.proxyHeaders) > 1
    /\ Len(result.ipChain) > 1
    /\ result.realIP = HiddenByTor

\* C2: with no recognized proxy header on the request, a chain of at most one
\* entry, a user agent without automation token and both lookups absent, the
\* verdict is Direct, score 0, confidence Low, isTor false.
C2_NoSignal ==
    /\ finished
    /\ \A h \in enumeratedHeaders : h \notin DOMAIN request.headers
    /\ \A token \in automationTokens : ~Includes(ToLowerCase(rawUserAgent), token)
    /\ absent("geo") /\ absent("tor")
    /\ Len(locals.ipChain) <= 1

C2_DirectWhenNoSignal ==
    C2_NoSignal =>
        /\ pc = "returned"
        /\ result.analysis.type = "Direct"
        /\ result.analysis.proxyScore = 0
        /\ result.analysis.confidence = "Low"
        /\ result.isTor = FALSE

C2_Witness ==
    /\ C2_NoSignal
    /\ rawUserAgent = Mozilla
    /\ "accept" \in DOMAIN request.headers
    /\ env["geo"].kind = "hang" /\ env["tor"].kind = "netfail"
    /\ result.analysis.type = "Direct"

\* C3: the connection type is the first match of Tor (isTor), Hosting/VPS
\* (geolocation hosting flag), Proxy/VPN (geolocation proxy flag or the
\* provisional header/chain signal), Proxy Chain (no geolocation proxy signal
\* but several chain entries), Direct; hosting and proxy both reported, and no
\* Tor, is Hosting/VPS.
C3_FirstMatch ==
    LET provisional == Len(result.proxyHeaders) > 0 \/ Len(result.ipChain) > 1
    IN  IF result.isTor THEN "Tor Network"
        ELSE IF geoReports("hosting") THEN "Hosting/VPS"
        ELSE IF geoReports("proxy") \/ provisional THEN "Proxy/VPN"
        ELSE IF ~geoReports("proxy") /\ result.hasMultipleIPs THEN "Proxy Chain"
        ELSE "Direct"

C3_PriorityOrder ==
    pc = "returned" =>
        /\ result.analysis.type = C3_FirstMatch
        /\ (geoReports("hosting") /\ geoReports("proxy") /\ ~result.isTor) =>
                result.analysis.type = "Hosting/VPS"

C3_Witness ==
    /\ pc = "returned"
    /\ geoReports("hosting") /\ geoReports("proxy")
    /\ ~result.isTor
    /\ Len(result.ipChain) > 1
    /\ result.analysis.type = "Hosting/VPS"

\* C4: the end-to-end scenario: only x-forwarded-for '203.0.113.5, 10.0.0.1',
\* user agent 'Mozilla/5.0', both lookups absent.
C4_Scenario ==
    /\ pc = "returned"
    /\ request.headers = ("x-forwarded-for" :> ScenarioXff) @@ ("user-agent" :> Mozilla)
    /\ absent("geo") /\ absent("tor")

C4_ScenarioFields ==
    /\ result.proxyHeaders = <<[header |-> "x-forwarded-for", value |-> ScenarioXff]>>
    /\ result.ipChain = << <<"2","0","3",".","0",".","1","1","3",".","5">>, <<"1","0",".","0",".","0",".","1">> >>
    /\ result.hasMultipleIPs = TRUE
    /\ result.realIP = <<"2","0","3",".","0",".","1","1","3",".","5">>
    /\ result.proxyChain = << <<"1","0",".","0",".","0",".","1">> >>
    /\ result.analysis.proxyScore = 3
    /\ result.analysis.confidence = "High"

\* C4 as claimed: the scenario's connection type is ProxyChain
C4_ScenarioProxyChain ==
    C4_Scenario => (C4_ScenarioFields /\ result.analysis.type = "Proxy Chain")

\* C4 as amended: the scenario's connection type is Proxy/VPN, every other
\* field as claimed
C4_ScenarioProxyVPN ==
    C4_Scenario => (C4_ScenarioFields /\ result.analysis.type = "Proxy/VPN")

C4_Witness == C4_Scenario /\ env["geo"].kind = "netfail" /\ env["tor"].kind = "hang"

\* The body lookup l parses has the shape the lookup documents: a record whose
\* isp and org are strings when given
documentedShape(l) ==
    env[l].kind = "json" =>
        /\ env[l].body.v.t = "object"
        /\ \A k \in {"isp", "org"} : env[l].body.f[k].t \in {"string", "undefined"}

\* The provider of lookup l answers with a body before the timeout of l
succeeds(l) == env[l].kind = "json" /\ env[l].latency < timeoutOf(l)

\* The lookup l times out, fails on the network or delivers an unparseable body
failsOrTimesOut(l) == env[l].kind \in {"netfail", "badjson", "hang"} \/ env[l].latency > timeoutOf(l)

\* C5: for every combination of success, timeout, network failure and
\* unparseable body of the two lookups, no lookup stays pending past its
\* timeout, the detection raises no error and returns a verdict; a lookup
\* that timed out or failed contributes null, and the other lookup's result
\* is still used.
C5_BestEffortLookups ==
    (\A l \in lookups : documentedShape(l)) =>
        /\ pc # "threw"
        /\ pc = "awaiting" =>
            \A l \in lookups : promise[l].status = "pending" => now <= locals.startTime + timeoutOf(l)
        /\ pc = "returned" =>
            /\ \A l \in lookups : failsOrTimesOut(l) => absent(l)
            /\ failsOrTimesOut("geo") => result.geoData = NullBody
            /\ succeeds("geo") => result.geoData = env["geo"].body
            /\ (succeeds("tor") /\ env["tor"].body.f["IsTor"] = Bool(TRUE)) =>
                    (result.isTor /\ result.torDetectionMethod = "Official Tor Exit Node List")
            /\ (failsOrTimesOut("tor") /\ result.isTor) =>
                    result.torDetectionMethod = "ISP Pattern Analysis"

C5_Witness ==
    /\ pc = "returned"
    /\ env["tor"].kind = "hang"
    /\ succeeds("geo") /\ env["geo"].latency > TorTimeoutMs
    /\ result.geoData = env["geo"].body
    /\ geoReports("hosting")

\* C6 as claimed: a lookup response of unexpected shape is turned into an
\* absent result and never escapes as an error, so that a detection always
\* returns a verdict.
C6_MalformedNeverEscapes ==
    (finished /\ \E l \in lookups : ~documentedShape(l)) => pc = "returned"

\* C7: the two timeouts run concurrently: a detection ends no later than the
\* larger of the two timeouts after it began; and when the Tor lookup hangs
\* while geolocation answers before the Tor timeout, it ends at the Tor
\* timeout with the Tor result absent, isTor coming only from the ISP pattern.
C7_TorHangsGeoQuick ==
    /\ finished
    /\ env["tor"].kind = "hang"
    /\ promise["geo"].at - locals.startTime < TorTimeoutMs

C7_TimeoutIsolation ==
    finished =>
        /\ now - locals.startTime <= (IF GeoTimeoutMs >= TorTimeoutMs THEN GeoTimeoutMs ELSE TorTimeoutMs)
        /\ pc = "returned" => result.analysis.processingTime = now - locals.startTime
        /\ C7_TorHangsGeoQuick =>
            /\ now - locals.startTime = TorTimeoutMs
            /\ absent("tor")
            /\ pc = "returned" =>
                (result.isTor => result.torDetectionMethod = "ISP Pattern Analysis")

C7_Witness ==
    /\ pc = "returned"
    /\ C7_TorHangsGeoQuick
    /\ promise["geo"].at - locals.startTime = Quick
    /\ result.isTor
    /\ result.analysis.processingTime = TorTimeoutMs

\* The matched-header list names exactly the headers of `names` that the
\* request carries with a non-empty value, each once and with its value
matchedExactly(names) ==
    /\ {result.proxyHeaders[i].header : i \in DOMAIN result.proxyHeaders}
            = {h \in names : h \in DOMAIN request.headers /\ HeadersGet(request, h).s # <<>>}
    /\ \A i, j \in DOMAIN result.proxyHeaders :
            result.proxyHeaders[i].header = result.proxyHeaders[j].header => i = j
    /\ \A i \in DOMAIN result.proxyHeaders :
            result.proxyHeaders[i].value = HeadersGet(request, result.proxyHeaders[i].header).s

\* C9 as claimed: the matched headers are the headers of the enumerated set of
\* twelve that are present with a non-empty value, and nothing else.
C9_TwelveHeadersMatched == pc = "returned" => matchedExactly(enumeratedHeaders)

\* C9 as amended: the matched headers are those of the seven names
\* x-forwarded-for, x-real-ip, cf-connecting-ip, true-client-ip,
\* x-forwarded-proto, x-forwarded-host, x-cluster-client-ip that are present
\* with a non-empty value, and nothing else.
C9_SevenHeadersMatched ==
    pc = "returned" =>
        matchedExactly({"x-forwarded-for", "x-real-ip", "cf-connecting-ip", "true-client-ip",
                        "x-forwarded-proto", "x-forwarded-host", "x-cluster-client-ip"})

C9_Witness ==
    /\ pc = "returned"
    /\ DOMAIN request.headers = enumeratedHeaders
    /\ Len(result.proxyHeaders) = 7

\* The forwarded-for values that differ from x by one more space around an
\* entry: at either end of the value or next to a comma
spaceVariants(x) ==
    {SubSeq(x, 1, p) \o <<" ">> \o SubSeq(x, p + 1, Len(x)) :
        p \in {q \in 0..Len(x) :
                \/ q = 0
                \/ q = Len(x)
                \/ x[q] = ","
                \/ x[q + 1] = ","}}

\* C10: forwarded-for values that differ only in spaces around the entries
\* give the same ipChain; '1.1.1.1, 2.2.2.2', '1.1.1.1,2.2.2.2' and
\* ' 1.1.1.1 , 2.2.2.2 ' give ['1.1.1.1', '2.2.2.2'].
C10_WhitespaceInsensitive ==
    (pc = "returned" /\ "x-forwarded-for" \in DOMAIN request.headers) =>
        LET x == request.headers["x-forwarded-for"]
        IN  /\ \A w \in spaceVariants(x) :
                ipChainOf([headers |-> "x-forwarded-for" :> w]) = result.ipChain
            /\ x \in {XffCommaSpace, XffComma, XffSpaced} =>
                result.ipChain = << <<"1",".","1",".","1",".","1">>, <<"2",".","2",".","2",".","2">> >>

C10_Witness ==
    /\ pc = "returned"
    /\ rawForwardedFor = XffSpaced
    /\ result.ipChain = << <<"1",".","1",".","1",".","1">>, <<"2",".","2",".","2",".","2">> >>

\* The timeout of lookup l fires before the provider answers
timesOut(l) == env[l].kind = "hang" \/ env[l].latency > timeoutOf(l)

\* What lookup l contributes to the call: absent once its timeout has fired
\* or the fetch failed, the parsed body otherwise
contributes(l) == IF timesOut(l) \/ env[l].kind # "json" THEN NullBody ELSE env[l].body

\* A finished call used, for each lookup, the result that came in time
C21_LateNeverUsed ==
    finished =>
        /\ \A l \in lookups :
              timesOut(l) =>
                  promise[l] = Fulfilled(NullBody, locals.startTime + timeoutOf(l))
        /\ pc = "threw" <=> fallbackThrows(contributes("geo"), contributes("tor"))
        /\ pc = "returned" =>
              result = verdictOf(locals, contributes("geo"), contributes("tor"), now)

\* A lookup is issued once: its promise goes from not issued to pending to
\* settled, never back, and a settled result stays as it is
C21_IssuedOnce ==
    \A l \in lookups :
        /\ promise[l].status = "pending" => promise'[l].status \in {"pending", "fulfilled"}
        /\ promise[l].status = "fulfilled" => promise'[l] = promise[l]

\* C21: within one detection call each lookup is issued at most once and never
\* retried, and once a lookup's timeout has fired its result is absent for the
\* call: the verdict is the one computed without it, also when the provider
\* would have answered later.
C21_NoRetryNoLateResult == []C21_LateNeverUsed /\ [][C21_IssuedOnce]_vars

\* The geolocation provider answers after the timeout with a body naming a
\* Tor exit node; the call returned without it
C21_Witness ==
    /\ pc = "returned"
    /\ env["geo"].kind = "json" /\ env["geo"].latency > GeoTimeoutMs
    /\ env["geo"].body.f["isp"] = Str(TorIsp)
    /\ promise["geo"] = Fulfilled(NullBody, locals.startTime + GeoTimeoutMs)
    /\ result.geoData = NullBody
    /\ ~result.isTor

----------------------------------------------------------------------------
(* Claims about getRealIP *)

cdnHeader == "cf-connecting-ip"
forwardedHeader == "x-forwarded-for"
realIpHeader == "x-real-ip"

\* The value of header h as the handler receives it
received(h) == Trim(request.headers[h])

\* Header h is on the request; it is there with a value
present(h) == h \in DOMAIN request.headers
carries(h) == present(h) /\ received(h) # <<>>

\* The candidate IP the handler passed to detection
candidateIP == locals.ip

firstForwarded == Trim(Split(received(forwardedHeader))[1])

\* C22 as claimed: a header that is present wins over every lower one, in the
\* order cf-connecting-ip, first entry of x-forwarded-for, x-real-ip, and the
\* sentinel 'Unknown' is returned only when none of the three is present.
C22_PresentWins ==
    pc # "entry" =>
        /\ present(cdnHeader) => candidateIP = received(cdnHeader)
        /\ ~present(cdnHeader) /\ present(forwardedHeader) => candidateIP = firstForwarded
        /\ ~present(cdnHeader) /\ ~present(forwardedHeader) /\ present(realIpHeader) =>
              candidateIP = received(realIpHeader)
        /\ candidateIP = UnknownIP =>
              ~present(cdnHeader) /\ ~present(forwardedHeader) /\ ~present(realIpHeader)

\* C22 amended: a header that is present with a value that is not empty wins
\* over every lower one, in the order cf-connecting-ip, first entry of
\* x-forwarded-for (trimmed), x-real-ip; a header that is present but empty or
\* blank counts as absent, and the sentinel 'Unknown' is returned exactly when
\* none of the three carries a value.
C22_NonEmptyWins ==
    pc # "entry" =>
        /\ carries(cdnHeader) => candidateIP = received(cdnHeader)
        /\ ~carries(cdnHeader) /\ carries(forwardedHeader) => candidateIP = firstForwarded
        /\ ~carries(cdnHeader) /\ ~carries(forwardedHeader) /\ carries(realIpHeader) =>
              candidateIP = received(realIpHeader)
        /\ candidateIP = UnknownIP <=>
              ~carries(cdnHeader) /\ ~carries(forwardedHeader) /\ ~carries(realIpHeader)

\* All three headers carry a value and the candidate is the CDN header's
C22_Witness ==
    /\ pc # "entry"
    /\ carries(cdnHeader) /\ carries(forwardedHeader) /\ carries(realIpHeader)
    /\ candidateIP = CdnAddr
    /\ candidateIP # firstForwarded

----------------------------------------------------------------------------
(* Claims about the client fan-out *)

\* The geolocation sources that completed with a usable result
succeeded == {s \in {"ipapi", "ipify", "ipApiCom"} : usable(client.promises[s])}

\* The sources among them that completed first
firstSucceeded == {s \in succeeded : \A r \in succeeded : client.promises[s].at <= client.promises[r].at}

\* C8 as claimed: of the geolocation sources launched in parallel, the result
\* used is that of the first to complete successfully, and the caller
\* proceeds as soon as that one succeeded, without waiting for the others.
C8_FirstSuccessWins ==
    (client.pc = "completed" /\ succeeded # {}) =>
        /\ \E s \in firstSucceeded : client.geoData = client.promises[s].value
        /\ \E s \in firstSucceeded : client.resumedAt = client.promises[s].at

----------------------------------------------------------------------------
(* Claims about the score, the labels and the resolved address *)

\* The seven names of the proxyHeaders array
recognizedHeaders ==
    {"x-forwarded-for", "x-real-ip", "cf-connecting-ip", "true-client-ip",
     "x-forwarded-proto", "x-forwarded-host", "x-cluster-client-ip"}

\* The request with the header h added
withHeader(h) == [headers |-> request.headers @@ (h :> Addr)]

\* The score of the request req under the Tor verdict of the current detection
scoreFor(req) == proxyScoreOf(detectLocals(getRealIP(req), req, 0), result.isTor)

\* The recognized headers whose addition leaves the chain as it is
addable == {h \in recognizedHeaders \ {"x-forwarded-for"} : h \notin DOMAIN request.headers}

\* C11: the score is monotonic in the matched headers: one more matched
\* header, with the chain, the automation flag and the Tor result the same,
\* never lowers it.
C11_ScoreMonotonic ==
    pc = "returned" =>
        \A h \in addable :
            /\ Len(detectedHeadersOf(withHeader(h))) = Len(result.proxyHeaders) + 1
            /\ ipChainOf(withHeader(h)) = result.ipChain
            /\ scoreFor(withHeader(h)) >= result.analysis.proxyScore

C11_Witness ==
    /\ pc = "returned"
    /\ "x-real-ip" \in addable
    /\ result.analysis.proxyScore > 0
    /\ scoreFor(withHeader("x-real-ip")) > result.analysis.proxyScore

\* The user agent matches bot, crawler, spider or scraper, whatever the case
automationMatch ==
    \E token \in { <<"b","o","t">>, <<"c","r","a","w","l","e","r">>, <<"s","p","i","d","e","r">>, <<"s","c","r","a","p","e","r">> } :
        Includes(ToLowerCase(Trim(rawUserAgent)), token)

\* C15: proxyScore = number of matched headers + 2 if the chain has more than
\* one entry + 1 if the user agent matches an automation token + 5 if isTor,
\* a non-negative integer.
C15_ScoreFormula ==
    pc = "returned" =>
        /\ result.analysis.proxyScore =
                Len(result.proxyHeaders)
                + (IF Len(result.ipChain) > 1 THEN 2 ELSE 0)
                + (IF automationMatch THEN 1 ELSE 0)
                + (IF result.isTor THEN 5 ELSE 0)
        /\ result.analysis.proxyScore \in Nat
        /\ result.isAutomated = automationMatch

C15_Witness ==
    /\ pc = "returned"
    /\ rawUserAgent = <<"M","y"," ","S","P","I","D","E","R">>
    /\ result.isTor
    /\ Len(result.ipChain) > 1
    /\ result.analysis.proxyScore = 9

\* C16: the final isLikelyProxy is (provisional isLikelyProxy or isTor), the
\* provisional one being (a matched header or more than one chain entry), and
\* confidence is 'High' exactly when the final isLikelyProxy holds, else 'Low'.
C16_ConfidenceFollowsProxy ==
    pc = "returned" =>
        LET provisional == Len(result.proxyHeaders) > 0 \/ Len(result.ipChain) > 1
        IN  /\ result.isLikelyProxy = (provisional \/ result.isTor)
            /\ result.analysis.confidence = (IF result.isLikelyProxy THEN "High" ELSE "Low")

C16_Witness ==
    /\ pc = "returned"
    /\ result.isTor
    /\ result.proxyHeaders = <<>>
    /\ result.isLikelyProxy
    /\ result.analysis.confidence = "High"

\* A geolocation result is present
geoPresent == Truthy(promise["geo"].value.v)

\* The lower-cased isp or org of the geolocation result contains a Tor token
ispPattern ==
    \E k \in {"isp", "org"} :
        /\ promise["geo"].value.f[k].t = "string"
        /\ \E token \in torPatterns : Includes(ToLowerCase(promise["geo"].value.f[k].s), token)

\* C17: torDetectionMethod is 'Official Tor Exit Node List' exactly when the
\* Tor lookup asserted an exit node, 'ISP Pattern Analysis' exactly when it
\* did not and a present geolocation result's isp or org contains a Tor
\* token, and empty exactly when isTor is false.
C17_TorMethod ==
    pc = "returned" =>
        /\ (result.torDetectionMethod = "Official Tor Exit Node List") = torAsserted
        /\ (result.torDetectionMethod = "ISP Pattern Analysis")
                = (~torAsserted /\ geoPresent /\ ispPattern)
        /\ (result.torDetectionMethod = "") = (~result.isTor)

C17_Witness ==
    /\ pc = "returned"
    /\ torAsserted
    /\ geoPresent /\ ispPattern
    /\ result.torDetectionMethod = "Official Tor Exit Node List"

\* C18 as claimed: when isTor is false, the resolved real IP is the first
\* entry of ipChain whenever ipChain is non-empty and the candidate IP only
\* when it is empty; the proxy chain tail is the entries after the first.
C18_RealIPFirstEntry ==
    (pc = "returned" /\ ~result.isTor) =>
        /\ result.ipChain # <<>> => result.realIP = result.ipChain[1]
        /\ result.ipChain = <<>> => result.realIP = locals.ip
        /\ result.proxyChain =
                [i \in 1..(IF result.ipChain = <<>> THEN 0 ELSE Len(result.ipChain) - 1)
                    |-> result.ipChain[i + 1]]

\* C19 as claimed: every entry of the parsed ipChain is trimmed and non-empty,
\* empty segments being dropped: ',1.1.1.1,' parses to ['1.1.1.1'].
C19_EntriesNonEmpty ==
    pc = "returned" =>
        /\ \A i \in DOMAIN result.ipChain :
                result.ipChain[i] # <<>> /\ Trim(result.ipChain[i]) = result.ipChain[i]
        /\ rawForwardedFor = XffCommas =>
                result.ipChain = << <<"1",".","1",".","1",".","1">> >>

\* The lookup l completed with a non-success response: an HTTP error status,
\* or a geolocation body whose status is not 'success'
nonSuccess(l) ==
    /\ env[l].kind = "json"
    /\ env[l].latency < timeoutOf(l)
    /\ \/ ~env[l].ok
       \/ l = "geo" /\ env[l].body.v.t = "object" /\ env[l].body.f["status"] # Str( <<"s","u","c","c","e","s","s">> )

\* The value of lookup l with a non-success response taken as absent
successOnly(l) == IF nonSuccess(l) THEN NullBody ELSE promise[l].value

\* C20 as claimed: a lookup that completes with a non-success response is
\* taken as absent: its fields have no influence on the verdict.
C20_NonSuccessAbsent ==
    pc = "returned" =>
        result = verdictOf(locals, successOnly("geo"), successOnly("tor"), now)

\* A call that has answered
answered(h) == handlers[h].pc = "done"

\* A payload the handler cannot read: not JSON, no object to read a type
\* from, or an instant capture without the browser string it logs
malformedPayload(p) ==
    \/ ~p.parsed
    \/ typeReadThrows(p.json)
    \/ dataTypeOf(p.json) = Str(InstantCapture) /\ browserLogThrows(p.json)

\* C12: a POST is answered with success = false and status 400 only when its
\* payload is malformed or not parseable; every other POST, whatever its
\* message type and its lookup outcomes, is answered with success.
C12_ErrorOnlyForBadPayload ==
    \A h \in handlerIds :
        answered(h) /\ handlers[h].method = "POST" =>
            IF malformedPayload(handlers[h].payload)
            THEN handlers[h].response = errorResponse
            ELSE handlers[h].response.success /\ handlers[h].response.status = 200

\* C13: after any sequence of GET and POST requests the server retains no
\* data derived from a visitor's request: the session map holds no entry and
\* the counter has not moved.
C13_NothingRetained ==
    /\ DOMAIN visitorSessions = {}
    /\ sessionCounter = 1

\* The call ran detectProxyVPN to its end
detectionEnded(h) == answered(h) /\ allSettled(h)

\* The verdict detectProxyVPN computes from the call's own request, candidate
\* IP and lookup results, processingTime left out
ownVerdict(h) ==
    LET req == handlers[h].request
    IN  verdictOf(detectLocals(getRealIP(req), req, 0),
                  handlers[h].provider["geo"], handlers[h].provider["tor"], 0)

withoutProcessingTime(verdict) == [verdict EXCEPT !.analysis.processingTime = 0]

detectionThrew(h) == fallbackThrows(handlers[h].provider["geo"], handlers[h].provider["tor"])

\* The session map and counter after the one getOrCreateSession call of h
countedOnce(h) ==
    LET ip == getRealIP(handlers[h].request)
        userAgent == userAgentOf(handlers[h].request)
    IN  /\ visitorSessions' =
              sessionsAfter(visitorSessions, sessionCounter, ip, userAgent, now)
        /\ sessionCounter' = counterAfter(visitorSessions, sessionCounter, ip, userAgent)

\* The verdict a finished detection returned is the one its own inputs give;
\* it returned none exactly when its own geolocation body made it throw
C14_OwnInputsOnly ==
    \A h \in handlerIds :
        detectionEnded(h) =>
            IF detectionThrew(h) THEN handlers[h].proxyDetection = NoResult
            ELSE /\ handlers[h].proxyDetection # NoResult
                 /\ withoutProcessingTime(handlers[h].proxyDetection) = ownVerdict(h)

\* The steps of a detection leave the session map and counter alone
C14_SessionsUntouched ==
    \A h \in handlerIds :
        /\ (GetDetected(h) \/ \E l \in lookups : HandlerLookupSettle(h, l)) =>
              UNCHANGED <<visitorSessions, sessionCounter>>
        /\ PostDetected(h) =>
              UNCHANGED <<visitorSessions, sessionCounter>> \/ countedOnce(h)

\* C14: in every interleaving of concurrent calls, the verdict of a detection
\* (processingTime apart) is the one computed from the call's own request
\* headers, candidate IP and own two lookup results, whatever the session map
\* holds and whatever other calls received; and the steps of a detection leave
\* the session map and the session counter as they are (the POST handler's own
\* getOrCreateSession call after detection is the only change).
C14_DetectionIsolated == []C14_OwnInputsOnly /\ [][C14_SessionsUntouched]_vars

\* Two detections overlapped in time, received different lookup results, the
\* session map was not empty, and both returned a verdict
C14_Witness ==
    /\ detectionEnded("h1") /\ detectionEnded("h2")
    /\ handlers["h1"].proxyDetection # NoResult
    /\ handlers["h2"].proxyDetection # NoResult
    /\ handlers["h1"].provider # handlers["h2"].provider
    /\ handlers["h1"].request # handlers["h2"].request
    /\ handlers["h1"].promise["geo"].at >= handlers["h2"].startTime
    /\ handlers["h2"].promise["geo"].at >= handlers["h1"].startTime
    /\ DOMAIN visitorSessions # {}


----------------------------------------------------------------------------
(* Claims about the session map *)

\* Every key called with has one entry, the calls with it all returned that
\* entry's sessionId, its visitCount is the number of those calls, and the
\* counter is one more than the number of keys
C23_SessionsMatchCalls ==
    /\ DOMAIN visitorSessions = DOMAIN sessionCalls
    /\ \A key \in DOMAIN sessionCalls :
          /\ sessionCalls[key].returned = {visitorSessions[key].sessionId}
          /\ visitorSessions[key].visitCount = sessionCalls[key].count
    /\ sessionCounter = 1 + Cardinality(DOMAIN sessionCalls)

\* An entry is never removed nor created again
C23_EntriesKept ==
    \A key \in DOMAIN visitorSessions :
        /\ key \in DOMAIN visitorSessions'
        /\ visitorSessions'[key].sessionId = visitorSessions[key].sessionId
        /\ visitorSessions'[key].firstSeen = visitorSessions[key].firstSeen

\* C23: after any sequence of getOrCreateSession calls, every call with the
\* same key has returned the same sessionId, the stored visitCount of each key
\* is the number of calls made with that key, sessionCounter is 1 plus the
\* number of distinct keys seen, and an entry is never removed or re-created.
C23_SessionBookkeeping == []C23_SessionsMatchCalls /\ [][C23_EntriesKept]_vars

\* Three calls: two with one key, at different times, and one with another
C23_Witness ==
    /\ Cardinality(DOMAIN visitorSessions) = 2
    /\ \E key \in DOMAIN visitorSessions :
          /\ visitorSessions[key].visitCount = 2
          /\ visitorSessions[key].lastSeen > visitorSessions[key].firstSeen


\* The session key of the request call h handles
keyOf(h) == sessionKey(getRealIP(handlers[h].request), userAgentOf(handlers[h].request))

\* Call h is a POST whose response reports a visitCount
reportsCount(h) ==
    /\ answered(h) /\ handlers[h].method = "POST"
    /\ handlers[h].response.success
    /\ "visitCount" \in DOMAIN handlers[h].response

\* The lookups of the two MAIN_DATA calls were in flight at the same time
overlapped(h, g) ==
    /\ allSettled(h) /\ allSettled(g)
    /\ \A l \in lookups : handlers[h].promise[l].at >= handlers[g].startTime
    /\ \A l \in lookups : handlers[g].promise[l].at >= handlers[h].startTime

\* C24: for any interleaving of concurrently handled POST requests with the
\* same key, no increment is lost: the visitCount values their responses report
\* are pairwise distinct, and the stored visitCount of a key is the number of
\* handler calls that updated its session, at every moment and so once all
\* handlers have finished.
C24_NoLostIncrement ==
    /\ \A h, g \in handlerIds :
          (h # g /\ reportsCount(h) /\ reportsCount(g) /\ keyOf(h) = keyOf(g)) =>
              handlers[h].response.visitCount # handlers[g].response.visitCount
    /\ \A h \in handlerIds :
          reportsCount(h) => handlers[h].response.visitCount <= visitorSessions[keyOf(h)].visitCount
    /\ \A key \in DOMAIN visitorSessions :
          /\ key \in DOMAIN sessionCalls
          /\ visitorSessions[key].visitCount = sessionCalls[key].count

\* Two MAIN_DATA posts with the same key whose lookups overlapped; they
\* reported the visits 1 and 2 and the session holds 2
C24_Witness ==
    /\ reportsCount("h1") /\ reportsCount("h2")
    /\ keyOf("h1") = keyOf("h2")
    /\ handlers["h1"].payload = Parsed(MainPayload)
    /\ handlers["h2"].payload = Parsed(MainPayload)
    /\ overlapped("h1", "h2")
    /\ {handlers["h1"].response.visitCount, handlers["h2"].response.visitCount} = {1, 2}
    /\ visitorSessions[keyOf("h1")].visitCount = 2


\* The step in which call h, a POST, answers with the error response
failsNow(h) ==
    /\ PostParsed(h) \/ PostDetected(h)
    /\ handlers'[h].response = errorResponse

C25_FailureStep ==
    \A h \in handlerIds :
        failsNow(h) => UNCHANGED <<visitorSessions, sessionCounter>>

\* C25 as claimed: a POST that ends in the error response (success = false,
\* status 400) leaves the session map and the session counter as they were: no
\* step of the failed request creates a session or increments a visitCount.
C25_FailedPostLeavesSessions == [][C25_FailureStep]_vars


====
